---- MODULE Spec2Model ----
(***************************************************************************)
(* Model of NameFinder (src/main.py): the legality filter islegal, the     *)
(* single-name check isavailable, the batch checker isavailable_batch and  *)
(* the concurrent checker isavailable_threaded.                            *)
(*                                                                         *)
(* A name is a sequence of characters, a character a one-token string.     *)
(* Durations are in tenths of a second.                                    *)
(***************************************************************************)
EXTENDS Integers, Sequences, FiniteSets, TLC

\* ------------------------------------------------------------------ bounds

\* Names following the repeated prefix of an input list.
MaxTail == 3
\* Length of the repeated prefix of an input list (one full chunk).
MaxPrefix == 10
\* Longest list handed to the concurrent checker.
MaxThreadNames == 2

\* ------------------------------------------------------- program constants

BATCH_SIZE == 10
\* 0.1 s
BATCH_WAIT_TIME == 1
MAX_RETRIES == 5
\* 1.0 s
BASE_WAIT == 10

AVAIALBLE == 1
UNAVAILABLE == 0
UNKNOWN == 0 - 1
ILLEGAL == 0 - 2
\* The None that fills a result slot of isavailable_threaded before its
\* future has been collected.
NONE == 0 - 9

AvailabilityCode == {AVAIALBLE, UNAVAILABLE, UNKNOWN, ILLEGAL}

LEGAL_CHARS ==
    { "a", "b", "c", "d", "e", "f", "g", "h", "i", "j", "k", "l", "m",
      "n", "o", "p", "q", "r", "s", "t", "u", "v", "w", "x", "y", "z",
      "0", "1", "2", "3", "4", "5", "6", "7", "8", "9", "_" }

\* ------------------------------------------------------------- str.lower()

Uppers ==
    << "A", "B", "C", "D", "E", "F", "G", "H", "I", "J", "K", "L", "M",
       "N", "O", "P", "Q", "R", "S", "T", "U", "V", "W", "X", "Y", "Z" >>

Lowers ==
    << "a", "b", "c", "d", "e", "f", "g", "h", "i", "j", "k", "l", "m",
       "n", "o", "p", "q", "r", "s", "t", "u", "v", "w", "x", "y", "z" >>

\* The characters of the modelled names.
Chars ==
    LEGAL_CHARS \cup { Uppers[k] : k \in 1..Len(Uppers) }
        \cup { "!", "U+0130", "U+0307", "U+212A" }

\* str.lower() of each character: a sequence, because U+0130 (capital I with
\* dot above) lowers to two characters; U+212A (Kelvin sign) lowers to "k".
LowerTable ==
    [c \in Chars |->
        IF \E k \in 1..Len(Uppers) : Uppers[k] = c
        THEN << Lowers[CHOOSE k \in 1..Len(Uppers) : Uppers[k] = c] >>
        ELSE IF c = "U+0130" THEN << "i", "U+0307" >>
        ELSE IF c = "U+212A" THEN << "k" >>
        ELSE << c >>]

LowerChar(c) == LowerTable[c]

RECURSIVE lower(_)
lower(name) ==
    IF name = << >> THEN << >>
    ELSE LowerChar(Head(name)) \o lower(Tail(name))

\* A bug islegal could have: the characters are tested without lowering.
islegal_nolower(name) ==
    /\ \A k \in 1..Len(name) : name[k] \in LEGAL_CHARS
    /\ 3 <= Len(name)
    /\ Len(name) <= 16

\* all(c in LEGAL_CHARS for c in name.lower()) and 3 <= len(name) <= 16
islegal(name) ==
    /\ \A k \in 1..Len(lower(name)) : lower(name)[k] \in LEGAL_CHARS
    /\ 3 <= Len(name)
    /\ Len(name) <= 16

\* ------------------------------------------------------------------ inputs

Rep(c, n) == [k \in 1..n |-> c]

N_ab == << "a", "b" >>
N_abc == << "a", "b", "c" >>
N_AbC == << "A", "b", "C" >>
N_a16 == Rep("a", 16)
N_a17 == Rep("a", 17)
N_bad == << "b", "a", "d", "!", "n", "a", "m", "e" >>
N_Valid == << "V", "a", "l", "i", "d", "_", "N", "a", "m", "e", "1" >>
N_empty == << >>
N_Kab == << "U+212A", "a", "b" >>
N_Idot == << "U+0130", "a" >>

\* The names the inputs are drawn from.
NamePool ==
    << N_abc, N_ab, N_Valid, N_bad, N_AbC, N_a17, N_a16, N_empty, N_Kab, N_Idot >>

Names == { NamePool[k] : k \in 1..Len(NamePool) }

\* n names of the pool, taken cyclically from position s.
Run(s, n) == [k \in 1..n |-> NamePool[((s + k - 2) % Len(NamePool)) + 1]]

\* The input lists: a name repeated 0, MaxPrefix - 1 or MaxPrefix times,
\* followed by up to MaxTail names of the pool.
NameLists ==
    { Rep(p, a) \o Run(s, n) :
        p \in {N_abc, N_ab}, a \in {0, MaxPrefix - 1, MaxPrefix},
        s \in 1..Len(NamePool), n \in 0..MaxTail }

\* The input lists of the concurrent checker: runs of the pool, and one name
\* repeated.
ThreadLists ==
    { Run(s, n) : s \in 1..Len(NamePool), n \in 0..MaxThreadNames }
    \cup { Rep(p, n) : p \in Names, n \in 0..MaxThreadNames }

\* --------------------------------------------------------- remote outcomes

\* The Retry-After header of a 429 answer: absent (or empty), a number of
\* seconds (here in tenths), or text float() cannot parse.
NoHint == [kind |-> "none", val |-> 0]
Hints ==
    { NoHint, [kind |-> "num", val |-> 30], [kind |-> "num", val |-> 0 - 10],
      [kind |-> "bad", val |-> 0] }

\* The names of the profiles a 200 answer of the batch endpoint may carry.
ProfileNames == { << "A", "B", "C" >>, lower(N_Valid) }

\* r = None
NoResponse == [status |-> 0, hint |-> NoHint, json |-> FALSE, body |-> {}]

\* Answers of POST BATCH_URL. json: the body parses as a list of profile
\* objects, each with a "name"; body: those names.
Post200Responses ==
    { [status |-> 200, hint |-> NoHint, json |-> TRUE, body |-> b] :
        b \in SUBSET ProfileNames }
    \cup { [status |-> 200, hint |-> NoHint, json |-> FALSE, body |-> {}] }

Post429Responses ==
    { [status |-> 429, hint |-> h, json |-> FALSE, body |-> {}] : h \in Hints }

Post400Response == [status |-> 400, hint |-> NoHint, json |-> FALSE, body |-> {}]

PostOtherResponses ==
    { [status |-> s, hint |-> NoHint, json |-> FALSE, body |-> {}] : s \in {500} }

\* random.uniform(0, 0.5), in tenths of a second.
Jitter == {0, 5}

\* Outcomes of GET URL.format(name). fail: requests.get raises; json: the
\* body parses as JSON (an empty body does not).
NoGet == [fail |-> FALSE, status |-> 0, json |-> FALSE]
GetResponses ==
    { [fail |-> TRUE, status |-> 0, json |-> FALSE] }
    \cup { [fail |-> FALSE, status |-> s, json |-> j] :
             s \in {200, 404, 402, 429, 500}, j \in BOOLEAN }

\* ------------------------------------------------------------------- state

VARIABLES
    op,           \* the operation called: "none", "batch", "threaded", "single", "islegal"
    pc,           \* where the operation stands
    names,        \* the argument list of names
    results,      \* the result list
    it,           \* the next value of range(0, len(names), BATCH_SIZE)
    i,            \* loop variable of the chunk loop (0-based)
    legal_chunk,  \* the legal names of the current chunk
    retries,      \* the retry counter of the current chunk
    r,            \* the last response of the batch endpoint, NoResponse for None
    slept,        \* what the last step passed to time.sleep, 0 if it did not sleep
    sent,         \* grouped requests sent for the current chunk
    only429,      \* no grouped request of the current chunk failed at transport level
    posted,       \* the grouped requests sent: chunk start and body
    fut,          \* one record per invocation of isavailable: state, response, value
    yielded,      \* the futures as_completed has yielded and the loop has stored, in order
    lookups,      \* names a single-name lookup was sent for
    nget,         \* single-name lookups sent, per input position
    arg,          \* argument of the last direct call of islegal
    ret           \* its return value

vars ==
    << op, pc, names, results, it, i, legal_chunk, retries, r, slept, sent,
       only429, posted, fut, yielded, lookups, nget, arg, ret >>

batchVars == << it, i, legal_chunk, retries, r, slept, sent, only429, posted >>
poolVars == << fut, yielded, lookups, nget >>
legalVars == << arg, ret >>

Init ==
    /\ op = "none"
    /\ pc = "idle"
    /\ names = << >>
    /\ results = << >>
    /\ it = 0
    /\ i = 0
    /\ legal_chunk = << >>
    /\ retries = 0
    /\ r = NoResponse
    /\ slept = 0
    /\ sent = 0
    /\ only429 = TRUE
    /\ posted = {}
    /\ fut = << >>
    /\ yielded = << >>
    /\ lookups = {}
    /\ nget = << >>
    /\ arg = << >>
    /\ ret = FALSE

\* ------------------------------------------------------- isavailable_batch

Min(a, b) == IF a <= b THEN a ELSE b

\* The positions (1-based) of names[start : start + BATCH_SIZE].
ChunkPositions(ns, start) == (start + 1)..Min(start + BATCH_SIZE, Len(ns))

\* A bug the slice could have: one name too many.
Chunk_long(ns, start) == SubSeq(ns, start + 1, Min(start + BATCH_SIZE + 1, Len(ns)))

\* chunk = names[i:i+cls.BATCH_SIZE]
Chunk(ns, start) == SubSeq(ns, start + 1, Min(start + BATCH_SIZE, Len(ns)))

\* A bug the chunk could have: the names are sent unfiltered.
LegalOf_all(chunk) == chunk

\* legal_chunk = [n for n in chunk if cls.islegal(n)]
LegalOf(chunk) == SelectSeq(chunk, islegal)

\* for j, n in enumerate(chunk, start=i): if not cls.islegal(n): results[j] = ILLEGAL
MarkIllegal(res, ns, start) ==
    [j \in 1..Len(res) |->
        IF j \in ChunkPositions(ns, start) /\ ~islegal(ns[j]) THEN ILLEGAL ELSE res[j]]

\* A bug the backoff could have: * written for **.
Backoff_linear(n, jit) == BASE_WAIT * (2 * n) + jit

\* A bug the backoff could have: the exponential factor is left out.
Backoff_flat(n, jit) == BASE_WAIT + jit

\* BASE_WAIT * (2 ** retries) + random.uniform(0, 0.5)
Backoff(n, jit) == BASE_WAIT * (2 ^ n) + jit

\* A bug the retry loop could have: one attempt too many.
LoopCond_off(n) == n <= MAX_RETRIES + 1

\* while retries <= MAX_RETRIES
LoopCond(n) == n <= MAX_RETRIES

\* A bug the failure test could have: the last allowed attempt counts as
\* exhaustion.
FailCond_ge(n, resp) == n >= MAX_RETRIES \/ resp = NoResponse \/ resp.status # 200

\* if retries > MAX_RETRIES or r is None or r.status_code != 200
FailCond(n, resp) == n > MAX_RETRIES \/ resp = NoResponse \/ resp.status # 200

\* A bug the failure branch could have: the ILLEGAL marks are overwritten.
MarkUnknown_all(res, ns, start) ==
    [j \in 1..Len(res) |->
        IF j \in ChunkPositions(ns, start) THEN UNKNOWN ELSE res[j]]

\* A bug the failure branch could have: every slot that is not ILLEGAL is
\* reset, those of earlier chunks too.
MarkUnknown_wide(res, ns, start) ==
    [j \in 1..Len(res) |-> IF res[j] # ILLEGAL THEN UNKNOWN ELSE res[j]]

\* for j, n in enumerate(chunk, start=i): if results[j] != ILLEGAL: results[j] = UNKNOWN
MarkUnknown(res, ns, start) ==
    [j \in 1..Len(res) |->
        IF j \in ChunkPositions(ns, start) /\ res[j] # ILLEGAL THEN UNKNOWN ELSE res[j]]

\* A bug the match could have: the profile names are not lowered.
FoundProfiles_nolower(resp) == resp.body

\* found_profiles = {p["name"].lower() for p in r.json()}
FoundProfiles(resp) == { lower(p) : p \in resp.body }

\* A bug the success branch could have: the names marked ILLEGAL are
\* classified like the others.
Classify_all(res, ns, start, found) ==
    [j \in 1..Len(res) |->
        IF j \in ChunkPositions(ns, start)
        THEN IF lower(ns[j]) \in found THEN UNAVAILABLE ELSE AVAIALBLE
        ELSE res[j]]

\* results[j] = UNAVAILABLE if n.lower() in found_profiles else AVAIALBLE,
\* for the positions of the chunk that are not ILLEGAL
Classify(res, ns, start, found) ==
    [j \in 1..Len(res) |->
        IF j \in ChunkPositions(ns, start) /\ res[j] # ILLEGAL
        THEN IF lower(ns[j]) \in found THEN UNAVAILABLE ELSE AVAIALBLE
        ELSE res[j]]

\* The head of the chunk loop: before the first chunk, after the continue of
\* an all-illegal chunk, after the continue of a failed chunk, after the pause.
AtFor == pc \in {"for", "skipped", "failed", "paused"}

\* The retry loop has been left: by break, or by its condition.
LoopLeft == pc = "after" \/ (pc = "while" /\ ~LoopCond(retries))

\* isavailable_batch(names): results = [UNKNOWN] * len(names)
CallBatch(ns) ==
    /\ pc = "idle"
    /\ op' = "batch"
    /\ names' = ns
    /\ results' = [j \in 1..Len(ns) |-> UNKNOWN]
    /\ it' = 0
    /\ pc' = "for"
    /\ UNCHANGED << i, legal_chunk, retries, r, slept, sent, only429, posted >>
    /\ UNCHANGED << poolVars, legalVars >>

\* A bug the chunk loop could have: the retry counter is set once, before the
\* loop, and carried from chunk to chunk.
NextChunk_noreset ==
    /\ op = "batch"
    /\ AtFor
    /\ it < Len(names)
    /\ i' = it
    /\ it' = it + BATCH_SIZE
    /\ legal_chunk' = LegalOf(Chunk(names, it))
    /\ results' = MarkIllegal(results, names, it)
    /\ slept' = 0
    /\ IF legal_chunk' = << >>
       THEN /\ pc' = "skipped"
            /\ UNCHANGED << r, sent, only429 >>
       ELSE /\ pc' = "while"
            /\ r' = NoResponse
            /\ sent' = 0
            /\ only429' = TRUE
    /\ UNCHANGED << op, names, retries, posted, poolVars, legalVars >>

\* One iteration of the chunk loop up to the retry loop (lines 130-145).
NextChunk ==
    /\ op = "batch"
    /\ AtFor
    /\ it < Len(names)
    /\ i' = it
    /\ it' = it + BATCH_SIZE
    /\ legal_chunk' = LegalOf(Chunk(names, it))
    /\ results' = MarkIllegal(results, names, it)
    /\ slept' = 0
    /\ IF legal_chunk' = << >>
       THEN /\ pc' = "skipped"
            /\ UNCHANGED << retries, r, sent, only429 >>
       ELSE /\ pc' = "while"
            /\ retries' = 0
            /\ r' = NoResponse
            /\ sent' = 0
            /\ only429' = TRUE
    /\ UNCHANGED << op, names, posted, poolVars, legalVars >>

\* The request of line 148 leaves: one more grouped request for this chunk.
Send ==
    /\ op = "batch"
    /\ pc = "while"
    /\ LoopCond(retries)
    /\ sent' = sent + 1
    /\ posted' = posted \cup { [start |-> i, body |-> legal_chunk] }

\* A bug the except branch could have: it sleeps and retries without counting.
PostRaises_noinc(jit) ==
    /\ Send
    /\ slept' = Backoff(retries, jit)
    /\ only429' = FALSE
    /\ UNCHANGED << op, pc, names, results, it, i, legal_chunk, r, retries >>
    /\ UNCHANGED << poolVars, legalVars >>

\* requests.post raises RequestException (lines 149-154).
PostRaises(jit) ==
    /\ Send
    /\ slept' = Backoff(retries, jit)
    /\ retries' = retries + 1
    /\ only429' = FALSE
    /\ UNCHANGED << op, pc, names, results, it, i, legal_chunk, r >>
    /\ UNCHANGED << poolVars, legalVars >>

\* The answer is 200 (lines 156-157).
Post200(resp) ==
    /\ Send
    /\ r' = resp
    /\ pc' = "after"
    /\ slept' = 0
    /\ UNCHANGED << op, names, results, it, i, legal_chunk, retries, only429 >>
    /\ UNCHANGED << poolVars, legalVars >>

\* The answer is 429 (lines 158-169). float() raises ValueError on a hint
\* that is no number, time.sleep() raises ValueError on a negative one.
Post429(resp, jit) ==
    /\ Send
    /\ r' = resp
    /\ IF resp.hint.kind = "bad" \/ (resp.hint.kind = "num" /\ resp.hint.val < 0)
       THEN /\ pc' = "raised"
            /\ slept' = 0
            /\ UNCHANGED retries
       ELSE /\ pc' = "while"
            /\ slept' = IF resp.hint.kind = "num" THEN resp.hint.val
                        ELSE Backoff(retries, jit)
            /\ retries' = retries + 1
    /\ UNCHANGED << op, names, results, it, i, legal_chunk, only429 >>
    /\ UNCHANGED << poolVars, legalVars >>

\* A bug the 400 branch could have: it backs off and retries like a 429.
Post400_retry ==
    /\ Send
    /\ r' = Post400Response
    /\ pc' = "while"
    /\ slept' = Backoff(retries, 0)
    /\ retries' = retries + 1
    /\ UNCHANGED << op, names, results, it, i, legal_chunk, only429 >>
    /\ UNCHANGED << poolVars, legalVars >>

\* The answer is 400 (lines 170-172).
Post400 ==
    /\ Send
    /\ r' = Post400Response
    /\ pc' = "after"
    /\ slept' = 0
    /\ UNCHANGED << op, names, results, it, i, legal_chunk, retries, only429 >>
    /\ UNCHANGED << poolVars, legalVars >>

\* The answer has another status (lines 173-176).
PostOther(resp) ==
    /\ Send
    /\ r' = resp
    /\ pc' = "after"
    /\ slept' = 0
    /\ UNCHANGED << op, names, results, it, i, legal_chunk, retries, only429 >>
    /\ UNCHANGED << poolVars, legalVars >>

\* The chunk never succeeded (lines 179-184).
ChunkFail ==
    /\ op = "batch"
    /\ LoopLeft
    /\ FailCond(retries, r)
    /\ results' = MarkUnknown(results, names, i)
    /\ pc' = "failed"
    /\ slept' = 0
    /\ UNCHANGED << op, names, it, i, legal_chunk, retries, r, sent, only429, posted >>
    /\ UNCHANGED << poolVars, legalVars >>

\* The chunk succeeded (lines 187-195). r.json() or p["name"] raises on a
\* body that is no list of profiles.
ChunkSuccess ==
    /\ op = "batch"
    /\ LoopLeft
    /\ ~FailCond(retries, r)
    /\ IF r.json
       THEN /\ results' = Classify(results, names, i, FoundProfiles(r))
            /\ slept' = BATCH_WAIT_TIME
            /\ pc' = "paused"
       ELSE /\ pc' = "raised"
            /\ slept' = 0
            /\ UNCHANGED results
    /\ UNCHANGED << op, names, it, i, legal_chunk, retries, r, sent, only429, posted >>
    /\ UNCHANGED << poolVars, legalVars >>

\* return results (line 197)
BatchReturn ==
    /\ op = "batch"
    /\ AtFor
    /\ it >= Len(names)
    /\ pc' = "done"
    /\ slept' = 0
    /\ UNCHANGED << op, names, results, it, i, legal_chunk, retries, r, sent, only429, posted >>
    /\ UNCHANGED << poolVars, legalVars >>

NextBatch ==
    \/ \E ns \in NameLists : CallBatch(ns)
    \/ NextChunk
    \/ \E jit \in Jitter : PostRaises(jit)
    \/ \E resp \in Post200Responses : Post200(resp)
    \/ \E resp \in Post429Responses, jit \in Jitter : Post429(resp, jit)
    \/ Post400
    \/ \E resp \in PostOtherResponses : PostOther(resp)
    \/ ChunkFail
    \/ ChunkSuccess
    \/ BatchReturn

\* ------------------------------------------------------------- isavailable

\* A bug the status match could have: the cases 429 and 402 exchanged.
Outcome_swapped(resp) ==
    IF resp.fail THEN [exc |-> TRUE, val |-> NONE]
    ELSE IF resp.status # 429 /\ ~resp.json THEN [exc |-> TRUE, val |-> NONE]
    ELSE IF resp.status = 200 THEN [exc |-> FALSE, val |-> UNAVAILABLE]
    ELSE IF resp.status = 404 THEN [exc |-> FALSE, val |-> AVAIALBLE]
    ELSE IF resp.status = 402 THEN [exc |-> FALSE, val |-> UNKNOWN]
    ELSE IF resp.status = 429 THEN [exc |-> FALSE, val |-> AVAIALBLE]
    ELSE [exc |-> FALSE, val |-> UNKNOWN]

\* What isavailable does with the outcome of its request (lines 102-120):
\* exc: it raises; val: the code it returns. requests.get is not guarded, and
\* response.json() is evaluated for the debug line of every status but 429.
Outcome(resp) ==
    IF resp.fail THEN [exc |-> TRUE, val |-> NONE]
    ELSE IF resp.status # 429 /\ ~resp.json THEN [exc |-> TRUE, val |-> NONE]
    ELSE IF resp.status = 200 THEN [exc |-> FALSE, val |-> UNAVAILABLE]
    ELSE IF resp.status = 404 THEN [exc |-> FALSE, val |-> AVAIALBLE]
    ELSE IF resp.status = 429 THEN [exc |-> FALSE, val |-> UNKNOWN]
    ELSE IF resp.status = 402 THEN [exc |-> FALSE, val |-> AVAIALBLE]
    ELSE [exc |-> FALSE, val |-> UNKNOWN]

\* An invocation of isavailable that has not started.
Queued == [st |-> "queued", resp |-> NoGet, val |-> NONE]

Finished(k) == fut[k].st \in {"done", "failed"}

\* isavailable(names[k]) starts (lines 99-102): ILLEGAL at once for an
\* illegal name, otherwise the lookup request is sent.
TaskStart(k) ==
    /\ op \in {"threaded", "single"}
    /\ pc \in {"collect", "unwind", "single"}
    /\ k \in 1..Len(fut)
    /\ fut[k].st = "queued"
    /\ IF ~islegal(names[k])
       THEN /\ fut' = [fut EXCEPT ![k] = [st |-> "done", resp |-> NoGet, val |-> ILLEGAL]]
            /\ UNCHANGED << lookups, nget >>
       ELSE /\ fut' = [fut EXCEPT ![k].st = "inflight"]
            /\ lookups' = lookups \cup {names[k]}
            /\ nget' = [nget EXCEPT ![k] = @ + 1]
    /\ UNCHANGED << op, pc, names, results, yielded, batchVars, legalVars >>

\* The lookup of isavailable(names[k]) ends with resp (lines 102-120).
TaskFinish(k, resp) ==
    /\ op \in {"threaded", "single"}
    /\ pc \in {"collect", "unwind", "single"}
    /\ k \in 1..Len(fut)
    /\ fut[k].st = "inflight"
    /\ fut' = [fut EXCEPT ![k] =
                 [st |-> IF Outcome(resp).exc THEN "failed" ELSE "done",
                  resp |-> resp, val |-> Outcome(resp).val]]
    /\ UNCHANGED << op, pc, names, results, yielded, lookups, nget >>
    /\ UNCHANGED << batchVars, legalVars >>

\* isavailable(name), called directly (main, line 275).
CallIsavailable(n) ==
    /\ pc = "idle"
    /\ op' = "single"
    /\ names' = << n >>
    /\ results' = << NONE >>
    /\ fut' = << Queued >>
    /\ nget' = << 0 >>
    /\ pc' = "single"
    /\ UNCHANGED << yielded, lookups, batchVars, legalVars >>

\* The direct call returns its code, or its exception propagates.
SingleEnd ==
    /\ op = "single"
    /\ pc = "single"
    /\ Finished(1)
    /\ IF fut[1].st = "done"
       THEN /\ results' = << fut[1].val >>
            /\ pc' = "done"
       ELSE /\ pc' = "raised"
            /\ UNCHANGED results
    /\ UNCHANGED << op, names, poolVars, batchVars, legalVars >>

\* ---------------------------------------------------- isavailable_threaded

\* futures = [executor.submit(...) for name in names]: Future objects compare
\* by identity, the k-th submitted one is the object k.
Futures(ns) == [k \in 1..Len(ns) |-> k]

\* A bug the collection loop could have: the slot is found by the name the
\* future was submitted for.
FutureIndexByName(ns, future) ==
    CHOOSE k \in 1..Len(ns) :
        /\ ns[k] = ns[future]
        /\ \A m \in 1..(k - 1) : ns[m] # ns[future]

\* for i, f in enumerate(futures): if f == future: ... break
FutureIndex(ns, future) ==
    CHOOSE k \in 1..Len(ns) :
        /\ Futures(ns)[k] = future
        /\ \A m \in 1..(k - 1) : Futures(ns)[m] # future

Collected == { yielded[m] : m \in 1..Len(yielded) }

\* isavailable_threaded(names): every name is submitted (lines 211-216).
CallThreaded(ns) ==
    /\ pc = "idle"
    /\ op' = "threaded"
    /\ names' = ns
    /\ fut' = [k \in 1..Len(ns) |-> Queued]
    /\ results' = [k \in 1..Len(ns) |-> NONE]
    /\ nget' = [k \in 1..Len(ns) |-> 0]
    /\ yielded' = << >>
    /\ pc' = "collect"
    /\ UNCHANGED << lookups, batchVars, legalVars >>

\* as_completed yields the finished future k (lines 217-222): its result is
\* stored, or future.result() raises the exception of its task.
Collect(k) ==
    /\ op = "threaded"
    /\ pc = "collect"
    /\ k \in 1..Len(fut)
    /\ k \notin Collected
    /\ Finished(k)
    /\ IF fut[k].st = "done"
       THEN /\ results' = [results EXCEPT ![FutureIndex(names, k)] = fut[k].val]
            /\ yielded' = Append(yielded, k)
            /\ UNCHANGED pc
       ELSE /\ pc' = "unwind"
            /\ UNCHANGED << results, yielded >>
    /\ UNCHANGED << op, names, fut, lookups, nget, batchVars, legalVars >>

\* Every future has been yielded; the executor shuts down and results is
\* returned (lines 211, 224).
ThreadedReturn ==
    /\ op = "threaded"
    /\ pc = "collect"
    /\ Collected = 1..Len(fut)
    /\ pc' = "done"
    /\ UNCHANGED << op, names, results, poolVars, batchVars, legalVars >>

\* The exception leaves the with block: the executor's shutdown(wait=True)
\* waits for every task, then the exception propagates to the caller.
ThreadedRaise ==
    /\ op = "threaded"
    /\ pc = "unwind"
    /\ \A k \in 1..Len(fut) : Finished(k)
    /\ pc' = "raised"
    /\ UNCHANGED << op, names, results, poolVars, batchVars, legalVars >>

\* ----------------------------------------------------------------- islegal

\* islegal(n), called directly; it may be called again.
CallIslegal(n) ==
    /\ pc \in {"idle", "legal"}
    /\ op' = "islegal"
    /\ pc' = "legal"
    /\ arg' = n
    /\ ret' = islegal(n)
    /\ UNCHANGED << names, results, batchVars, poolVars >>

\* ----------------------------------------------------------- specification

NextSingle ==
    \/ \E n \in Names : CallIsavailable(n)
    \/ SingleEnd
    \/ \E n \in Names : CallIslegal(n)

NextThreaded ==
    \/ \E ns \in ThreadLists : CallThreaded(ns)
    \/ \E k \in 1..MaxThreadNames : TaskStart(k)
    \/ \E k \in 1..MaxThreadNames, resp \in GetResponses : TaskFinish(k, resp)
    \/ \E k \in 1..MaxThreadNames : Collect(k)
    \/ ThreadedReturn
    \/ ThreadedRaise

Next == NextBatch \/ NextThreaded \/ NextSingle

Spec == Init /\ [][Next]_vars

\* isavailable_batch runs on one thread: a call whose request and sleep
\* return goes on to its next statement.
FairSpec == Spec /\ WF_vars(NextBatch)

\* ------------------------------------------------------------------ claims

\* The illegal names as the specification words them: too short, too long,
\* or a character that lowers to something outside the legal alphabet.
IllegalBySpec(n) ==
    \/ Len(n) < 3
    \/ Len(n) > 16
    \/ \E k \in 1..Len(n) : \E m \in 1..Len(LowerChar(n[k])) :
          LowerChar(n[k])[m] \notin LEGAL_CHARS

\* A response the batch checker cannot read: a 200 whose body is no list of
\* profiles, a 429 whose wait hint is no number or a negative one.
Unreadable(resp) ==
    \/ resp.status = 200 /\ ~resp.json
    \/ resp.status = 429 /\ resp.hint.kind = "bad"
    \/ resp.status = 429 /\ resp.hint.kind = "num" /\ resp.hint.val < 0

\* The code the payload of a 200 answer gives the name at position j.
PayloadCode(j) ==
    IF \E p \in r.body : lower(p) = lower(names[j]) THEN UNAVAILABLE ELSE AVAIALBLE

SameChunk(j, k) == (j - 1) \div BATCH_SIZE = (k - 1) \div BATCH_SIZE

\* C1: isavailable_batch returns a list as long as its input, position j
\* holds one of the four codes, ILLEGAL exactly for the illegal names, and
\* equal names of one chunk get equal codes; it fails to return only on a
\* response it cannot read.
C1_BatchLengthOrderCodes ==
    op = "batch" =>
        /\ Len(results) = Len(names)
        /\ pc = "raised" => Unreadable(r)
        /\ pc = "done" =>
              \A j \in 1..Len(names) :
                  /\ results[j] \in AvailabilityCode
                  /\ results[j] = ILLEGAL <=> IllegalBySpec(names[j])
                  /\ \A k \in 1..Len(names) :
                        SameChunk(j, k) /\ lower(names[j]) = lower(names[k])
                            => results[j] = results[k]

\* Two chunks, and all four codes in the returned list.
C1_Witness ==
    /\ op = "batch"
    /\ pc = "done"
    /\ Len(names) > BATCH_SIZE
    /\ \A c \in AvailabilityCode : \E j \in 1..Len(names) : results[j] = c

\* C2: no exception propagates out of isavailable_batch or
\* isavailable_threaded, whatever the remote outcomes.
C2_NoExceptionPropagates ==
    ~(op \in {"batch", "threaded"} /\ pc = "raised")

\* C3: an illegal name is never looked up and never part of a grouped
\* request, and both checkers return ILLEGAL for it.
C3_IllegalNeverSent ==
    /\ \A n \in lookups : ~IllegalBySpec(n)
    /\ \A q \in posted : \A k \in 1..Len(q.body) : ~IllegalBySpec(q.body[k])
    /\ op = "threaded" =>
          \A j \in 1..Len(names) : IllegalBySpec(names[j]) => nget[j] = 0
    /\ op \in {"batch", "threaded"} /\ pc = "done" =>
          \A j \in 1..Len(names) : IllegalBySpec(names[j]) => results[j] = ILLEGAL

\* A returned batch with a request sent for a chunk that mixes legal and
\* illegal names.
C3_Witness ==
    /\ op = "batch"
    /\ pc = "done"
    /\ \E q \in posted :
          \E j \in ChunkPositions(names, q.start) : results[j] = ILLEGAL

\* C4: for a legal name isavailable returns UNAVAILABLE on 200, AVAIALBLE
\* on 404 (empty body), AVAIALBLE on 402 and UNKNOWN on 429.
C4_SingleCheckMapping ==
    op = "single" /\ fut[1].st \in {"done", "failed"} /\ ~IllegalBySpec(names[1]) =>
        /\ fut[1].resp.status = 200 /\ fut[1].resp.json =>
              fut[1].st = "done" /\ fut[1].val = UNAVAILABLE
        /\ fut[1].resp.status = 404 /\ ~fut[1].resp.json =>
              fut[1].st = "done" /\ fut[1].val = AVAIALBLE
        /\ fut[1].resp.status = 402 /\ fut[1].resp.json =>
              fut[1].st = "done" /\ fut[1].val = AVAIALBLE
        /\ fut[1].resp.status = 429 =>
              fut[1].st = "done" /\ fut[1].val = UNKNOWN

\* The code the single-name check of position k has produced.
TaskCode(k) ==
    IF IllegalBySpec(names[k]) THEN ILLEGAL ELSE Outcome(fut[k].resp).val

\* C5: isavailable_threaded returns a list as long as its input whose slot k
\* holds the code of the check of names[k], whatever the completion order,
\* and it is left only after every submitted task has completed; it fails to
\* return only when the check of some name has raised.
C5_ThreadedOrder ==
    op = "threaded" =>
        /\ Len(results) = Len(names)
        /\ pc \in {"done", "raised"} => \A k \in 1..Len(names) : Finished(k)
        /\ pc \in {"unwind", "raised"} => \E k \in 1..Len(names) : fut[k].st = "failed"
        /\ pc = "done" =>
              \A k \in 1..Len(names) :
                  /\ results[k] # NONE
                  /\ results[k] = fut[k].val
                  /\ results[k] = TaskCode(k)

\* The same name twice, the second check completing first, with different
\* codes.
C5_Witness ==
    /\ op = "threaded"
    /\ pc = "done"
    /\ yielded = << 2, 1 >>
    /\ names[1] = names[2]
    /\ results[1] = UNAVAILABLE
    /\ results[2] = AVAIALBLE

\* C6: after a 200 every legal name of the chunk is UNAVAILABLE when its
\* lowered form is the lowered name of a profile of the answer and AVAIALBLE
\* otherwise, and a chunk answered 200 is never treated as failed.
C6_SuccessClassifies ==
    op = "batch" =>
        /\ pc = "paused" =>
              \A j \in ChunkPositions(names, i) :
                  ~IllegalBySpec(names[j]) =>
                      results[j] = PayloadCode(j) /\ results[j] # UNKNOWN
        /\ pc = "failed" => r.status # 200

\* A chunk with a name in the answer under another spelling and a name not
\* in it.
C6_Witness ==
    /\ op = "batch"
    /\ pc = "paused"
    /\ \E j, k \in ChunkPositions(names, i) :
          /\ results[j] = UNAVAILABLE
          /\ names[j] \notin r.body
          /\ results[k] = AVAIALBLE

\* C7: a chunk answered 400 gets no further request, its legal names are
\* UNKNOWN and its illegal names ILLEGAL.
C7_BadRequestAbandons ==
    /\ [](op = "batch" /\ pc = "failed" /\ r.status = 400 =>
            \A j \in ChunkPositions(names, i) :
                results[j] = IF IllegalBySpec(names[j]) THEN ILLEGAL ELSE UNKNOWN)
    /\ [][op = "batch" /\ r.status = 400 /\ i' = i => sent' = sent]_vars

\* A chunk of legal and illegal names abandoned on a 400 after one request.
C7_Witness ==
    /\ op = "batch"
    /\ pc = "failed"
    /\ r.status = 400
    /\ sent = 1
    /\ \E j, k \in ChunkPositions(names, i) :
          results[j] = ILLEGAL /\ results[k] = UNKNOWN

\* C8: a chunk answered 429 five times and 200 on the sixth request gets the
\* codes of the 200 answer's payload, not UNKNOWN.
C8_SixthAnswerCounts ==
    op = "batch" /\ only429 /\ sent = 6 /\ r.status = 200 /\ r.json
        /\ pc \in {"failed", "paused"} =>
            /\ pc = "paused"
            /\ \A j \in ChunkPositions(names, i) :
                  results[j] # ILLEGAL =>
                      results[j] = PayloadCode(j) /\ results[j] # UNKNOWN

\* A chunk of ten legal names, five 429 answers, then a 200 that names some
\* of them.
C8_Witness ==
    /\ op = "batch"
    /\ pc = "paused"
    /\ only429
    /\ sent = 6
    /\ retries = 5
    /\ Len(legal_chunk) = 10
    /\ \E j, k \in ChunkPositions(names, i) :
          results[j] = UNAVAILABLE /\ results[k] = AVAIALBLE

\* C9 as stated: at most 5 grouped requests are sent for a chunk.
C9_AtMostFiveRequests == op = "batch" => sent <= MAX_RETRIES

\* C9 as amended: at most MAX_RETRIES + 1 = 6 grouped requests are sent for
\* a chunk (the first attempt and five retries), and a chunk abandoned for
\* exhaustion has had exactly that many.
C9_AtMostSixRequests ==
    op = "batch" =>
        /\ sent <= MAX_RETRIES + 1
        /\ retries <= MAX_RETRIES + 1
        /\ pc = "failed" /\ retries > MAX_RETRIES => sent = MAX_RETRIES + 1

\* A chunk abandoned after six requests, throttled and failed in a mix.
C9_Witness ==
    /\ op = "batch"
    /\ pc = "failed"
    /\ sent = 6
    /\ r.status = 429
    /\ ~only429

\* C10: islegal(name) is true exactly when every character of the lowered
\* name is in the legal alphabet and the length is within [3, 16]; the five
\* examples hold; a repeated call on the same name gives the same boolean
\* and no call changes any other state.
C10_LegalIff ==
    /\ [](pc = "legal" =>
            /\ ret <=> ~IllegalBySpec(arg)
            /\ arg = N_ab => ~ret
            /\ arg = N_abc => ret
            /\ arg = N_a17 => ~ret
            /\ arg = N_Valid => ret
            /\ arg = N_bad => ~ret)
    /\ [][pc = "legal" /\ pc' = "legal" =>
            /\ arg' = arg => ret' = ret
            /\ UNCHANGED << names, results, batchVars, poolVars >>]_vars

\* islegal has accepted a name with capitals.
C10_Witness ==
    /\ pc = "legal"
    /\ arg = N_Valid
    /\ ret

\* C11: for a legal name isavailable returns UNKNOWN on a status other than
\* 200, 404, 402 and 429, and UNKNOWN when the lookup fails at transport
\* level.
C11_OtherStatusOrFailureUnknown ==
    op = "single" /\ fut[1].st \in {"done", "failed"} /\ ~IllegalBySpec(names[1]) =>
        /\ fut[1].resp.fail =>
              fut[1].st = "done" /\ fut[1].val = UNKNOWN
        /\ ~fut[1].resp.fail /\ fut[1].resp.status \notin {200, 404, 402, 429}
              /\ fut[1].resp.json =>
              fut[1].st = "done" /\ fut[1].val = UNKNOWN

\* C12: a chunk a grouped request was sent for, ended in success or in
\* failure, is followed by the pause of BATCH_WAIT_TIME before the chunk
\* loop goes on to a next chunk that sends a request.
C12_PauseAfterEveryChunk ==
    [][op = "batch" /\ pc \in {"failed", "paused"} /\ pc' = "while"
          => slept = BATCH_WAIT_TIME]_vars

\* The waits BASE_WAIT * 2^n + jitter, jitter within [0, 0.5 s].
BackoffWaits(n) == { BASE_WAIT * (2 ^ n) + j : j \in 0..5 }

\* C13: a retried request (429 or transport failure) increments the attempt
\* counter by one and sleeps before the next request: the wait hint of the
\* 429 answer when it carries one, BASE_WAIT * 2^attempt + jitter otherwise
\* and after a transport failure. (A step that leaves r as it was is a
\* transport failure, or a 429 equal to the previous answer.)
C13_RetrySleeps ==
    [][op = "batch" /\ pc = "while" /\ pc' = "while" /\ sent' = sent + 1 =>
          /\ retries' = retries + 1
          /\ IF r' # r
             THEN /\ r'.status = 429
                  /\ IF r'.hint.kind = "num"
                     THEN slept' = r'.hint.val
                     ELSE slept' \in BackoffWaits(retries)
             ELSE \/ slept' \in BackoffWaits(retries)
                  \/ r.status = 429 /\ r.hint.kind = "num" /\ slept' = r.hint.val]_vars

\* A wait hint honoured on the third retry, where the backoff would be longer.
C13_Witness ==
    /\ op = "batch"
    /\ pc = "while"
    /\ retries = 3
    /\ r.status = 429
    /\ r.hint.kind = "num"
    /\ slept = r.hint.val
    /\ slept < BASE_WAIT * 4

\* C14: within one chunk, as long as no answer carries a wait hint, a retry
\* never waits less than the retry before it, whatever the jitter.
C14_WaitsNonDecreasing ==
    [][op = "batch" /\ pc = "while" /\ pc' = "while" /\ sent' = sent + 1
          /\ sent >= 1 /\ r.hint.kind = "none" /\ r'.hint.kind = "none"
          => slept' >= slept]_vars

\* A second retry with the smallest jitter, after a first one.
C14_Witness ==
    /\ op = "batch"
    /\ pc = "while"
    /\ retries = 2
    /\ r.hint.kind = "none"
    /\ slept = BASE_WAIT * 2

\* C15: a chunk whose retry loop ends without a 200 (retries exhausted, 400,
\* another status) leaves its legal names UNKNOWN and its illegal names
\* ILLEGAL, and only such a chunk takes the failure branch.
C15_FailureMarksUnknown ==
    op = "batch" =>
        /\ pc = "failed" =>
              /\ retries > MAX_RETRIES \/ (r # NoResponse /\ r.status \notin {200, 429})
              /\ \A j \in ChunkPositions(names, i) :
                    /\ IllegalBySpec(names[j]) => results[j] = ILLEGAL
                    /\ ~IllegalBySpec(names[j]) => results[j] = UNKNOWN
        /\ pc = "paused" => r.status = 200 /\ retries <= MAX_RETRIES

\* A chunk of legal and illegal names abandoned on a 500 that followed two
\* retries.
C15_Witness ==
    /\ op = "batch"
    /\ pc = "failed"
    /\ r.status = 500
    /\ retries = 2
    /\ \E j, k \in ChunkPositions(names, i) :
          results[j] = ILLEGAL /\ results[k] = UNKNOWN

\* C16: isavailable_threaded sends at most one lookup per input position,
\* and a check answered 429 ends at once with UNKNOWN, which is what its
\* position holds in the returned list.
C16_ThrottledNoRetry ==
    op = "threaded" =>
        \A k \in 1..Len(names) :
            /\ nget[k] <= 1
            /\ fut[k].st = "inflight" => nget[k] = 1
            /\ Finished(k) /\ fut[k].resp.status = 429 =>
                  fut[k].st = "done" /\ fut[k].val = UNKNOWN
            /\ pc = "done" /\ fut[k].resp.status = 429 => results[k] = UNKNOWN

\* The same name twice, the first check throttled, the second answered 200.
C16_Witness ==
    /\ op = "threaded"
    /\ pc = "done"
    /\ Len(names) = 2
    /\ names[1] = names[2]
    /\ fut[1].resp.status = 429
    /\ fut[2].resp.status = 200
    /\ results = << UNKNOWN, UNAVAILABLE >>
    /\ nget = << 1, 1 >>

NotIllegal(n) == ~IllegalBySpec(n)

\* The legal names, in input order, of names[start : start + 10].
LegalSlice(ns, start) ==
    SelectSeq([k \in 1..(IF Len(ns) - start < 10 THEN Len(ns) - start ELSE 10) |->
                  ns[start + k]], NotIllegal)

\* C17: every grouped request carries 1 to 10 names, exactly the legal names
\* in input order of one chunk names[i : i + 10] with i a multiple of 10; a
\* chunk without legal names causes no request; every request of a chunk
\* (first attempt and retries) carries the same body.
C17_RequestBodies ==
    op = "batch" =>
        /\ \A q \in posted :
              /\ q.start % 10 = 0
              /\ q.start < Len(names)
              /\ Len(q.body) >= 1
              /\ Len(q.body) <= 10
              /\ q.body = LegalSlice(names, q.start)
        /\ \A q1, q2 \in posted : q1.start = q2.start => q1.body = q2.body
        /\ pc = "skipped" => \A q \in posted : q.start # i
        /\ pc \in {"while", "after", "failed", "paused"} /\ sent >= 1 =>
              [start |-> i, body |-> LegalSlice(names, i)] \in posted

\* Two chunks sent: nine of the first chunk's ten names, one of the second's
\* two, the second retried to exhaustion.
C17_Witness ==
    /\ op = "batch"
    /\ pc = "done"
    /\ sent = 6
    /\ \E q1, q2 \in posted :
          /\ q1.start = 0
          /\ Len(q1.body) = 9
          /\ q2.start = 10
          /\ Len(q2.body) = 1
          /\ Len(names) = 12

\* C18: the retry counter belongs to the chunk: it is 0 when a chunk's first
\* request is due, also after a chunk that exhausted its retries, it counts
\* the requests of this chunk that were retried, and the backoff exponent is
\* that count.
C18_RetryStatePerChunk ==
    /\ [](op = "batch" =>
            /\ pc = "while" => retries = sent
            /\ pc = "after" => retries = sent - 1)
    /\ [][op = "batch" /\ pc \in {"for", "skipped", "failed", "paused"}
            /\ pc' = "while" => retries' = 0]_vars
    /\ [][op = "batch" /\ pc = "while" /\ pc' = "while" /\ sent' = sent + 1
            /\ r'.hint.kind # "num" => slept' \in BackoffWaits(sent)]_vars

\* A second chunk that got all six requests after a first chunk that failed.
C18_Witness ==
    /\ op = "batch"
    /\ i = BATCH_SIZE
    /\ pc = "failed"
    /\ retries = MAX_RETRIES + 1
    /\ sent = MAX_RETRIES + 1
    /\ results[1] = UNKNOWN

\* Chunks the chunk loop has still to start.
RemainingChunks ==
    IF it >= Len(names) THEN 0 ELSE (Len(names) - it + BATCH_SIZE - 1) \div BATCH_SIZE

\* A variant of the call: the chunks still to start first, then the place in
\* the current chunk, then the attempts the retry loop has left.
Rank ==
    IF pc \in {"done", "raised"} THEN 0
    ELSE 1 + (MAX_RETRIES + 5) * RemainingChunks
           + (CASE pc = "while" -> 2 + (MAX_RETRIES + 1 - retries)
                [] pc = "after" -> 1
                [] OTHER -> 0)

\* C19: isavailable_batch ends (by return or by an exception) for every name
\* list and every sequence of remote outcomes: every request of the retry loop
\* leaves the loop or increases the attempt counter, which is bounded; the
\* chunk index increases by 10 with every chunk; so every step brings the call
\* nearer to its end.
C19_BatchTerminates ==
    /\ (op = "batch") ~> (pc \in {"done", "raised"})
    /\ [](op = "batch" => retries <= MAX_RETRIES + 1)
    /\ [][op = "batch" /\ pc = "while" /\ sent' = sent + 1 =>
            pc' \in {"after", "raised"} \/ retries' = retries + 1]_vars
    /\ [][op = "batch" /\ it' # it => it' = it + BATCH_SIZE /\ i' = it]_vars
    /\ [][op = "batch" => Rank' < Rank]_vars

\* A call over two chunks has returned; its last chunk used all six requests.
C19_Witness ==
    /\ op = "batch"
    /\ pc = "done"
    /\ it = 2 * BATCH_SIZE
    /\ retries = MAX_RETRIES + 1
    /\ results[1] = UNAVAILABLE

\* C20: processing a chunk changes only the result slots of that chunk's own
\* positions: the codes of an earlier chunk are never changed by a later
\* chunk, whether it succeeds, is abandoned or exhausts its retries.
C20_ChunkFrame ==
    [][op = "batch" /\ op' = "batch" =>
          /\ Len(results') = Len(results)
          /\ \A j \in 1..Len(results) :
                results'[j] # results[j] => j > i' /\ j <= i' + 10]_vars

\* The second chunk has been given up; the first chunk's code stands.
C20_Witness ==
    /\ op = "batch"
    /\ i = BATCH_SIZE
    /\ pc = "failed"
    /\ results[1] = UNAVAILABLE
    /\ results[BATCH_SIZE + 1] = UNKNOWN

====
